---- MODULE Spec2Model ----
(***************************************************************************)
(* Model of the spudsense_full Arduino sketches.  Every sketch is a        *)
(* self-contained setup()/loop() program flashed alone onto one board;     *)
(* the variable `sketch` says which one runs in a behaviour.               *)
(*                                                                         *)
(*   part_000    digit-select soil moisture reader   (byte protocol)       *)
(*   part_001    stepper controller, MOVES variant   (line protocol)       *)
(*   part_002    stepper controller, HOMING_CYCLE variant (line protocol)  *)
(*   part_003    pump controller                     (byte protocol)       *)
(*   soilsensor  five-sensor reader, mapToMoisture   (line protocol)       *)
(*   getData_IR  timed reader, inline map + clamp    (converter only)      *)
(*   relay_ir / soilsensor_ir  the two MLX90614 readers                   *)
(*                                                                         *)
(* Characters are ASCII codes, a String is a sequence of codes.  Serial    *)
(* input is a FIFO of commands (bytes for the byte protocols, lines for    *)
(* readStringUntil('\n')); each command carries the ordinal of its arrival *)
(* so that the order of handling can be stated.                            *)
(***************************************************************************)
EXTENDS Integers, Sequences, FiniteSets, TLC

\* ---------------------------------------------------------------- bounds
\* commands the host writes in one behaviour
MaxArrivals == 13
\* commands that may wait in the serial receive buffer
MaxBuf == 2

\* ------------------------------------------------------- program constants
\* part_001
STEPS_PER_MOVE_001 == 600
MOVES == 5
TOTAL_STEPS == (STEPS_PER_MOVE_001 * MOVES) - 100
\* part_002
STEPS_PER_MOVE_002 == 800
HOMING_CYCLE == 5
CUMULATIVE_STEPS == STEPS_PER_MOVE_002 * HOMING_CYCLE
\* both stepper sketches
STEP_PIN == 3
DIR_PIN == 2
\* part_003
PUMP_PINS == <<8, 9, 10, 11, 12>>
PUMP_COMMANDS == <<65, 66, 67, 68, 69>>
\* part_000 / getData_IR / soilsensor calibration
DRY_VALUE == 767
WET_VALUE == 463
\* 10-bit ADC
ADC_MAX == 1023

\* character codes used by the sketches
CharM == 77
CharZero == 48
CharNewline == 10

StepperSketches == {"part_001", "part_002"}
DispatcherSketches == {"part_000", "part_001", "part_002", "part_003"}
ConverterSketches == {"part_000", "soilsensor", "getData_IR"}

OutputPins == {STEP_PIN, DIR_PIN} \cup {PUMP_PINS[i] : i \in 1..5}
PumpPinSet == {PUMP_PINS[i] : i \in 1..5}

VARIABLES
  sketch,      \* which sketch is flashed on the board
  pc,          \* "setup", "loop", or the blocking call the program is in
  rx,          \* serial receive buffer: sequence of [id, cmd]
  nArrived,    \* commands written by the host so far
  nHandled,    \* commands read by loop() so far
  nDone,       \* commands whose action has run to completion
  cur,         \* the command read by the current / last loop() iteration
  frame,       \* arguments of the blocking call in progress
  pin,         \* level of every digital output pin
  moveCount,   \* part_001 / part_002 global
  selectedAnalogPinIndex,  \* part_000 global
  nM,          \* 'M' commands handled so far (stepper sketches)
  act,         \* action chosen for cur: "none","forward","reverse","pump","read","diag"
  pulses,      \* step pulses emitted by the last moveMotor call
  position,    \* net step displacement of the motor from its origin
  serialOut,   \* lines written to Serial by the current / last loop() iteration
  rawReading,  \* last analogRead result (converter specification)
  percentTenths, \* last converted moisture, in tenths of a percent
  tx,          \* soilsensor: lines written to Serial that the host has not read yet
  hostGot,     \* soilsensor: the line the host took as the answer to its latest request
  hostAwait,   \* soilsensor: the host has sent a request and not yet read a line
  sensorOk,    \* infrared sketches: the MLX90614 answers on the bus
  nBegin       \* infrared sketches: calls of begin() so far

vars == <<sketch, pc, rx, nArrived, nHandled, nDone, cur, frame, pin, moveCount,
          selectedAnalogPinIndex, nM, act, pulses, position, serialOut,
          rawReading, percentTenths, tx, hostGot, hostAwait, sensorOk, nBegin>>

\* the state only the soilsensor and the infrared sketches use
extVars == <<tx, hostGot, hostAwait, sensorOk, nBegin>>

NoLine == [req |-> 0, kind |-> "none"]

\* nothing written, nothing requested, begin() not called yet
ExtInit ==
  /\ tx = <<>>
  /\ hostGot = NoLine
  /\ hostAwait = FALSE
  /\ sensorOk = TRUE
  /\ nBegin = 0

NoCmd == [id |-> 0, cmd |-> <<>>]
NoFrame == [call |-> "none"]

\* ------------------------------------------------------ Arduino primitives
\* integer division rounding toward minus infinity
TruncDiv_floor(a, b) == IF b < 0 THEN (-a) \div (-b) ELSE a \div b

\* C++ integer division truncates toward zero
TruncDiv(a, b) ==
  IF (a >= 0) = (b > 0)
    THEN (IF a >= 0 THEN a ELSE -a) \div (IF b > 0 THEN b ELSE -b)
    ELSE -((IF a >= 0 THEN a ELSE -a) \div (IF b > 0 THEN b ELSE -b))

\* long map(long x, long in_min, long in_max, long out_min, long out_max)
map(x, in_min, in_max, out_min, out_max) ==
  TruncDiv((x - in_min) * (out_max - out_min), in_max - in_min) + out_min

constrain(x, lo, hi) == IF x < lo THEN lo ELSE IF x > hi THEN hi ELSE x

abs(x) == IF x < 0 THEN -x ELSE x

\* isspace(): ' ', \t, \n, \v, \f, \r
IsSpace(c) == c = 32 \/ (c >= 9 /\ c <= 13)

RECURSIVE TrimLeft(_)
TrimLeft(s) ==
  IF s # <<>> /\ IsSpace(Head(s)) THEN TrimLeft(Tail(s)) ELSE s

RECURSIVE TrimRight(_)
TrimRight(s) ==
  IF s # <<>> /\ IsSpace(s[Len(s)]) THEN TrimRight(SubSeq(s, 1, Len(s) - 1)) ELSE s

\* String::trim()
trim(s) == TrimRight(TrimLeft(s))

\* String::charAt(0): 0 when the string is empty
charAt0(s) == IF Len(s) = 0 THEN 0 ELSE s[1]

\* ----------------------------------------------------------- serial input
\* bytes the host may send to part_003: 'A'..'E', 'F', '\n'
PumpBytes == {65, 66, 67, 68, 69, 70, CharNewline}
\* bytes the host may send to part_000: '0', '2', '4', '5', '/', 'A'
ReaderBytes == {48, 50, 52, 53, 47, 65}
\* lines the host may send to a stepper sketch (without the terminating \n):
\* "M", " M\r", "M1", "", "XM"
StepperLines == {<<77>>, <<32, 77, 13>>, <<77, 49>>, <<>>, <<88, 77>>}

Commands(s) ==
  IF s \in StepperSketches THEN StepperLines
  ELSE IF s = "part_003" THEN PumpBytes
  ELSE IF s = "part_000" THEN ReaderBytes
  ELSE {}

\* Serial.available() > 0
Available == Len(rx) > 0

\* a read that takes the newest command in place of the oldest
NextInput_last(buf) == buf[Len(buf)]

\* the command Serial.read() / readStringUntil() takes from the buffer
NextInput(buf) == Head(buf)
\* the buffer after the read
AfterRead(buf) == Tail(buf)

\* the host writes one command; it waits in the buffer until loop() reads it
HostWrite ==
  /\ sketch \in DispatcherSketches
  /\ nArrived < MaxArrivals
  /\ Len(rx) < MaxBuf
  /\ \E c \in Commands(sketch) :
       rx' = Append(rx, [id |-> nArrived + 1, cmd |-> c])
  /\ nArrived' = nArrived + 1
  /\ UNCHANGED <<extVars, sketch, pc, nHandled, nDone, cur, frame, pin, moveCount,
                 selectedAnalogPinIndex, nM, act, pulses, position, serialOut,
                 rawReading, percentTenths>>

\* --------------------------------------------------------------- part_003
\* setup(): every pump pin an output, driven HIGH (pump off)
setup_003 ==
  /\ sketch = "part_003"
  /\ pc = "setup"
  /\ pin' = [p \in OutputPins |-> IF p \in PumpPinSet THEN "HIGH" ELSE pin[p]]
  /\ pc' = "loop"
  /\ UNCHANGED <<extVars, sketch, rx, nArrived, nHandled, nDone, cur, frame, moveCount,
                 selectedAnalogPinIndex, nM, act, pulses, position, serialOut,
                 rawReading, percentTenths>>

\* the search with sensorIndex initialised to 0 in place of -1
sensorIndexOf_init0(command) ==
  IF \E i \in 1..5 : PUMP_COMMANDS[i] = command
    THEN (CHOOSE i \in 1..5 : PUMP_COMMANDS[i] = command) - 1
    ELSE 0

\* the search loop of loop(): index of command in PUMP_COMMANDS, or -1
sensorIndexOf(command) ==
  IF \E i \in 1..5 : PUMP_COMMANDS[i] = command
    THEN (CHOOSE i \in 1..5 : PUMP_COMMANDS[i] = command
                              /\ \A j \in 1..(i - 1) : PUMP_COMMANDS[j] # command) - 1
    ELSE -1

\* the pin activatePumpTimed drives for pinIndex (0-based)
PumpPinOf(pinIndex) == PUMP_PINS[pinIndex + 1]

\* pump on with a 1-based index into PUMP_PINS
pumpOn_shift(pins, pinIndex) == [pins EXCEPT ![PUMP_PINS[((pinIndex + 1) % 5) + 1]] = "LOW"]

\* digitalWrite(PUMP_PINS[pinIndex], LOW): pump on (active-low relay)
pumpOn(pins, pinIndex) == [pins EXCEPT ![PumpPinOf(pinIndex)] = "LOW"]

\* pump off always written to PUMP_PINS[0]
pumpOff_first(pins, pinIndex) == [pins EXCEPT ![PUMP_PINS[1]] = "HIGH"]

\* digitalWrite(PUMP_PINS[pinIndex], HIGH): pump off
pumpOff(pins, pinIndex) == [pins EXCEPT ![PumpPinOf(pinIndex)] = "HIGH"]

\* loop(), valid ID: activatePumpTimed up to the blocking delay
loop_003_activate ==
  /\ sketch = "part_003"
  /\ pc = "loop"
  /\ Available
  /\ LET in == NextInput(rx)
         sensorIndex == sensorIndexOf(in.cmd)
     IN /\ sensorIndex # -1
        /\ cur' = in
        /\ rx' = AfterRead(rx)
        /\ pin' = pumpOn(pin, sensorIndex)
        /\ frame' = [call |-> "activatePumpTimed", pinIndex |-> sensorIndex,
                     command |-> in.cmd]
        /\ serialOut' = <<[kind |-> "activated", val |-> in.cmd]>>
  /\ nHandled' = nHandled + 1
  /\ act' = "pump"
  /\ pc' = "delay"
  /\ UNCHANGED <<extVars, sketch, nArrived, nDone, moveCount, selectedAnalogPinIndex, nM,
                 pulses, position, rawReading, percentTenths>>

\* activatePumpTimed after delay(durationMillis): pump off, return to loop()
activatePumpTimed_off ==
  /\ sketch = "part_003"
  /\ pc = "delay"
  /\ pin' = pumpOff(pin, frame.pinIndex)
  /\ serialOut' = Append(serialOut, [kind |-> "deactivated", val |-> frame.command])
  /\ frame' = NoFrame
  /\ nDone' = nDone + 1
  /\ pc' = "loop"
  /\ UNCHANGED <<extVars, sketch, rx, nArrived, nHandled, cur, moveCount,
                 selectedAnalogPinIndex, nM, act, pulses, position,
                 rawReading, percentTenths>>

\* loop(), invalid ID: diagnostic only
loop_003_invalid ==
  /\ sketch = "part_003"
  /\ pc = "loop"
  /\ Available
  /\ LET in == NextInput(rx)
     IN /\ sensorIndexOf(in.cmd) = -1
        /\ cur' = in
        /\ serialOut' = <<[kind |-> "diag", val |-> in.cmd]>>
  /\ rx' = AfterRead(rx)
  /\ nHandled' = nHandled + 1
  /\ nDone' = nDone + 1
  /\ act' = "diag"
  /\ UNCHANGED <<extVars, sketch, pc, nArrived, frame, pin, moveCount,
                 selectedAnalogPinIndex, nM, pulses, position,
                 rawReading, percentTenths>>

\* --------------------------------------------------------------- part_001
\* setup(): STEP_PIN and DIR_PIN become outputs (driving LOW)
setup_001 ==
  /\ sketch = "part_001"
  /\ pc = "setup"
  /\ pin' = [pin EXCEPT ![STEP_PIN] = "LOW", ![DIR_PIN] = "LOW"]
  /\ pc' = "loop"
  /\ UNCHANGED <<extVars, sketch, rx, nArrived, nHandled, nDone, cur, frame, moveCount,
                 selectedAnalogPinIndex, nM, act, pulses, position, serialOut,
                 rawReading, percentTenths>>

\* moveMotor: digitalWrite(DIR_PIN, clockwise ? LOW : HIGH)
moveMotorDir_001(clockwise) == IF clockwise THEN "LOW" ELSE "HIGH"

\* the homing test written with > in place of >=
homingDue_001_gt(mc) == mc > MOVES

\* if (moveCount >= MOVES)
homingDue_001(mc) == mc >= MOVES

\* the steps argument of the homing call
homingSteps_001 == TOTAL_STEPS

\* the pulse loop of moveMotor: abs(steps) pulses, STEP_PIN left LOW
PulsesOf(steps) == abs(steps)

\* displacement of abs(steps) pulses with DIR_PIN at level dir
Displacement(dir, steps) == (IF dir = "HIGH" THEN 1 ELSE -1) * PulsesOf(steps)

\* loop(), 'M' with moveCount >= MOVES: homing, up to the pulse loop
loop_001_homing ==
  /\ sketch = "part_001"
  /\ pc = "loop"
  /\ Available
  /\ LET in == NextInput(rx)
     IN /\ charAt0(trim(in.cmd)) = CharM
        /\ cur' = in
  /\ homingDue_001(moveCount)
  /\ rx' = AfterRead(rx)
  /\ nHandled' = nHandled + 1
  /\ nM' = nM + 1
  /\ act' = "reverse"
  /\ serialOut' = <<[kind |-> "homing", val |-> homingSteps_001]>>
  /\ pin' = [pin EXCEPT ![DIR_PIN] = moveMotorDir_001(FALSE)]
  /\ frame' = [call |-> "moveMotor", steps |-> homingSteps_001, clockwise |-> FALSE]
  /\ pc' = "moveMotor"
  /\ UNCHANGED <<extVars, sketch, nArrived, nDone, moveCount, selectedAnalogPinIndex,
                 pulses, position, rawReading, percentTenths>>

\* loop(), 'M' with moveCount < MOVES: forward move, up to the pulse loop
\* (moveCount++ comes before the print and the move)
loop_001_forward ==
  /\ sketch = "part_001"
  /\ pc = "loop"
  /\ Available
  /\ LET in == NextInput(rx)
     IN /\ charAt0(trim(in.cmd)) = CharM
        /\ cur' = in
  /\ ~homingDue_001(moveCount)
  /\ rx' = AfterRead(rx)
  /\ nHandled' = nHandled + 1
  /\ nM' = nM + 1
  /\ act' = "forward"
  /\ moveCount' = moveCount + 1
  /\ serialOut' = <<[kind |-> "move", val |-> moveCount' + 1]>>
  /\ pin' = [pin EXCEPT ![DIR_PIN] = moveMotorDir_001(TRUE)]
  /\ frame' = [call |-> "moveMotor", steps |-> STEPS_PER_MOVE_001, clockwise |-> TRUE]
  /\ pc' = "moveMotor"
  /\ UNCHANGED <<extVars, sketch, nArrived, nDone, selectedAnalogPinIndex,
                 pulses, position, rawReading, percentTenths>>

\* the pulse loop of moveMotor runs to its end and loop() finishes the branch
moveMotor_001_return ==
  /\ sketch = "part_001"
  /\ pc = "moveMotor"
  /\ pulses' = PulsesOf(frame.steps)
  /\ position' = position + Displacement(pin[DIR_PIN], frame.steps)
  /\ pin' = [pin EXCEPT ![STEP_PIN] = IF PulsesOf(frame.steps) > 0 THEN "LOW" ELSE @]
  /\ IF act = "reverse"
       THEN /\ moveCount' = 0
            /\ serialOut' = Append(serialOut, [kind |-> "homing complete", val |-> 0])
       ELSE /\ moveCount' = moveCount
            /\ serialOut' = Append(serialOut, [kind |-> "move complete", val |-> 0])
  /\ frame' = NoFrame
  /\ nDone' = nDone + 1
  /\ pc' = "loop"
  /\ UNCHANGED <<extVars, sketch, rx, nArrived, nHandled, cur, selectedAnalogPinIndex, nM,
                 act, rawReading, percentTenths>>

\* loop(), first character is not 'M': diagnostic only
loop_001_unknown ==
  /\ sketch = "part_001"
  /\ pc = "loop"
  /\ Available
  /\ LET in == NextInput(rx)
     IN /\ charAt0(trim(in.cmd)) # CharM
        /\ cur' = in
        /\ serialOut' = <<[kind |-> "diag", val |-> trim(in.cmd)]>>
  /\ rx' = AfterRead(rx)
  /\ nHandled' = nHandled + 1
  /\ nDone' = nDone + 1
  /\ act' = "diag"
  /\ UNCHANGED <<extVars, sketch, pc, nArrived, frame, pin, moveCount,
                 selectedAnalogPinIndex, nM, pulses, position,
                 rawReading, percentTenths>>

\* --------------------------------------------------------------- part_002
\* setup(): STEP_PIN and DIR_PIN become outputs (driving LOW)
setup_002 ==
  /\ sketch = "part_002"
  /\ pc = "setup"
  /\ pin' = [pin EXCEPT ![STEP_PIN] = "LOW", ![DIR_PIN] = "LOW"]
  /\ pc' = "loop"
  /\ UNCHANGED <<extVars, sketch, rx, nArrived, nHandled, nDone, cur, frame, moveCount,
                 selectedAnalogPinIndex, nM, act, pulses, position, serialOut,
                 rawReading, percentTenths>>

\* moveMotor: digitalWrite(DIR_PIN, clockwise ? HIGH : LOW)
moveMotorDir_002(clockwise) == IF clockwise THEN "HIGH" ELSE "LOW"

\* the homing test written with > in place of >=
homingDue_002_gt(mc) == mc > HOMING_CYCLE

\* if (moveCount >= HOMING_CYCLE)
homingDue_002(mc) == mc >= HOMING_CYCLE

\* the steps argument of the homing call
homingSteps_002 == CUMULATIVE_STEPS

\* loop(), 'M' with moveCount >= HOMING_CYCLE: homing, up to the pulse loop
loop_002_homing ==
  /\ sketch = "part_002"
  /\ pc = "loop"
  /\ Available
  /\ LET in == NextInput(rx)
     IN /\ charAt0(trim(in.cmd)) = CharM
        /\ cur' = in
  /\ homingDue_002(moveCount)
  /\ rx' = AfterRead(rx)
  /\ nHandled' = nHandled + 1
  /\ nM' = nM + 1
  /\ act' = "reverse"
  /\ serialOut' = <<[kind |-> "homing", val |-> homingSteps_002]>>
  /\ pin' = [pin EXCEPT ![DIR_PIN] = moveMotorDir_002(FALSE)]
  /\ frame' = [call |-> "moveMotor", steps |-> homingSteps_002, clockwise |-> FALSE]
  /\ pc' = "moveMotor"
  /\ UNCHANGED <<extVars, sketch, nArrived, nDone, moveCount, selectedAnalogPinIndex,
                 pulses, position, rawReading, percentTenths>>

\* loop(), 'M' with moveCount < HOMING_CYCLE: forward move, up to the pulse loop
loop_002_forward ==
  /\ sketch = "part_002"
  /\ pc = "loop"
  /\ Available
  /\ LET in == NextInput(rx)
     IN /\ charAt0(trim(in.cmd)) = CharM
        /\ cur' = in
  /\ ~homingDue_002(moveCount)
  /\ rx' = AfterRead(rx)
  /\ nHandled' = nHandled + 1
  /\ nM' = nM + 1
  /\ act' = "forward"
  /\ serialOut' = <<[kind |-> "move", val |-> moveCount + 1]>>
  /\ pin' = [pin EXCEPT ![DIR_PIN] = moveMotorDir_002(TRUE)]
  /\ frame' = [call |-> "moveMotor", steps |-> STEPS_PER_MOVE_002, clockwise |-> TRUE]
  /\ pc' = "moveMotor"
  /\ UNCHANGED <<extVars, sketch, nArrived, nDone, moveCount, selectedAnalogPinIndex,
                 pulses, position, rawReading, percentTenths>>

\* the pulse loop of moveMotor runs to its end and loop() finishes the branch
\* (moveCount++ comes after the forward move)
moveMotor_002_return ==
  /\ sketch = "part_002"
  /\ pc = "moveMotor"
  /\ pulses' = PulsesOf(frame.steps)
  /\ position' = position + Displacement(pin[DIR_PIN], frame.steps)
  /\ pin' = [pin EXCEPT ![STEP_PIN] = IF PulsesOf(frame.steps) > 0 THEN "LOW" ELSE @]
  /\ IF act = "reverse"
       THEN /\ moveCount' = 0
            /\ serialOut' = Append(serialOut, [kind |-> "homing complete", val |-> 0])
       ELSE /\ moveCount' = moveCount + 1
            /\ serialOut' = Append(serialOut, [kind |-> "move complete", val |-> 0])
  /\ frame' = NoFrame
  /\ nDone' = nDone + 1
  /\ pc' = "loop"
  /\ UNCHANGED <<extVars, sketch, rx, nArrived, nHandled, cur, selectedAnalogPinIndex, nM,
                 act, rawReading, percentTenths>>

\* loop(), first character is not 'M': diagnostic only
loop_002_unknown ==
  /\ sketch = "part_002"
  /\ pc = "loop"
  /\ Available
  /\ LET in == NextInput(rx)
     IN /\ charAt0(trim(in.cmd)) # CharM
        /\ cur' = in
        /\ serialOut' = <<[kind |-> "diag", val |-> trim(in.cmd)]>>
  /\ rx' = AfterRead(rx)
  /\ nHandled' = nHandled + 1
  /\ nDone' = nDone + 1
  /\ act' = "diag"
  /\ UNCHANGED <<extVars, sketch, pc, nArrived, frame, pin, moveCount,
                 selectedAnalogPinIndex, nM, pulses, position,
                 rawReading, percentTenths>>

\* ------------------------------------------------------------- converters
\* part_000: constrain(map(rawReading, WET_VALUE, DRY_VALUE, 100, 0), 0, 100),
\* an int percentage
calculateMoisturePercentage(raw) ==
  constrain(map(raw, WET_VALUE, DRY_VALUE, 100, 0), 0, 100)

\* soilsensor: map(analogValue, 767, 463, 0, 100), clamped to 0..1000, then
\* divided by 10.0.  The float returned is mapToMoistureTenths / 10.
mapToMoistureTenths(analogValue) ==
  LET mappedValue == map(analogValue, 767, 463, 0, 100)
      lo == IF mappedValue < 0 THEN 0 ELSE mappedValue
  IN  IF lo > 1000 THEN 1000 ELSE lo

\* getData_IR: map(rawMoisture, DRY, WET, 0, 100) with the if / else-if clamp
inlineMoisturePercentage(rawMoisture) ==
  LET moisturePercentage == map(rawMoisture, DRY_VALUE, WET_VALUE, 0, 100)
  IN  IF moisturePercentage < 0 THEN 0
      ELSE IF moisturePercentage > 100 THEN 100
      ELSE moisturePercentage

\* --------------------------------------------------------------- part_000
\* readings analogRead returns in the dispatcher specification
AnalogSamples == {0, WET_VALUE, 615, DRY_VALUE, ADC_MAX}

\* setup(): banner only
setup_000 ==
  /\ sketch = "part_000"
  /\ pc = "setup"
  /\ pc' = "loop"
  /\ UNCHANGED <<extVars, sketch, rx, nArrived, nHandled, nDone, cur, frame, pin, moveCount,
                 selectedAnalogPinIndex, nM, act, pulses, position, serialOut,
                 rawReading, percentTenths>>

\* selectedAnalogPinIndex = inputChar - '0'
pinIndexOf(inputChar) == inputChar - CharZero

\* loop(), digit 0..4: sample the pin and report the percentage
loop_000_read ==
  /\ sketch = "part_000"
  /\ pc = "loop"
  /\ Available
  /\ LET in == NextInput(rx)
     IN /\ selectedAnalogPinIndex' = pinIndexOf(in.cmd)
        /\ cur' = in
  /\ selectedAnalogPinIndex' >= 0 /\ selectedAnalogPinIndex' <= 4
  /\ \E r \in AnalogSamples :
       /\ rawReading' = r
       /\ percentTenths' = 10 * calculateMoisturePercentage(r)
       /\ serialOut' = <<[kind |-> "reading", val |-> calculateMoisturePercentage(r)]>>
  /\ rx' = AfterRead(rx)
  /\ nHandled' = nHandled + 1
  /\ nDone' = nDone + 1
  /\ act' = "read"
  /\ UNCHANGED <<extVars, sketch, pc, nArrived, frame, pin, moveCount, nM, pulses, position>>

\* loop(), any other character: diagnostic
loop_000_invalid ==
  /\ sketch = "part_000"
  /\ pc = "loop"
  /\ Available
  /\ LET in == NextInput(rx)
     IN /\ selectedAnalogPinIndex' = pinIndexOf(in.cmd)
        /\ cur' = in
        /\ serialOut' = <<[kind |-> "diag", val |-> in.cmd]>>
  /\ ~(selectedAnalogPinIndex' >= 0 /\ selectedAnalogPinIndex' <= 4)
  /\ rx' = AfterRead(rx)
  /\ nHandled' = nHandled + 1
  /\ nDone' = nDone + 1
  /\ act' = "diag"
  /\ UNCHANGED <<extVars, sketch, pc, nArrived, frame, pin, moveCount, nM, pulses, position,
                 rawReading, percentTenths>>

\* ------------------------------------------------------------------ system
Init ==
  /\ sketch \in DispatcherSketches
  /\ pc = "setup"
  /\ rx = <<>>
  /\ nArrived = 0
  /\ nHandled = 0
  /\ nDone = 0
  /\ cur = NoCmd
  /\ frame = NoFrame
  /\ pin = [p \in OutputPins |-> "Z"]
  /\ moveCount = 0
  /\ selectedAnalogPinIndex = -1
  /\ nM = 0
  /\ act = "none"
  /\ pulses = 0
  /\ position = 0
  /\ serialOut = <<>>
  /\ rawReading = 0
  /\ percentTenths = 0
  /\ ExtInit

Next ==
  \/ HostWrite
  \/ setup_003
  \/ loop_003_activate
  \/ activatePumpTimed_off
  \/ loop_003_invalid
  \/ setup_001
  \/ loop_001_homing
  \/ loop_001_forward
  \/ moveMotor_001_return
  \/ loop_001_unknown
  \/ setup_002
  \/ loop_002_homing
  \/ loop_002_forward
  \/ moveMotor_002_return
  \/ loop_002_unknown
  \/ setup_000
  \/ loop_000_read
  \/ loop_000_invalid

Spec == Init /\ [][Next]_vars

\* ------------------------------------------------- the pump controller alone
InitPump == Init /\ sketch = "part_003"

NextPump ==
  \/ HostWrite
  \/ setup_003
  \/ loop_003_activate
  \/ activatePumpTimed_off
  \/ loop_003_invalid

\* delay(durationMillis) returns, loop() runs again: the program never stops
SpecPump ==
  /\ InitPump
  /\ [][NextPump]_vars
  /\ WF_vars(setup_003)
  /\ WF_vars(activatePumpTimed_off)
  /\ WF_vars(loop_003_activate \/ loop_003_invalid)

\* ------------------------------------------------------ the converters alone
\* part_000 loop(): analogRead, then calculateMoisturePercentage
convert_000 ==
  /\ sketch = "part_000"
  /\ pc = "sampled"
  /\ percentTenths' = 10 * calculateMoisturePercentage(rawReading)
  /\ pc' = "converted"
  /\ UNCHANGED <<extVars, sketch, rx, nArrived, nHandled, nDone, cur, frame, pin, moveCount,
                 selectedAnalogPinIndex, nM, act, pulses, position, serialOut,
                 rawReading>>

\* soilsensor loop(): analogRead, then mapToMoisture
convert_soilsensor ==
  /\ sketch = "soilsensor"
  /\ pc = "sampled"
  /\ percentTenths' = mapToMoistureTenths(rawReading)
  /\ pc' = "converted"
  /\ UNCHANGED <<extVars, sketch, rx, nArrived, nHandled, nDone, cur, frame, pin, moveCount,
                 selectedAnalogPinIndex, nM, act, pulses, position, serialOut,
                 rawReading>>

\* getData_IR loop(): analogRead, then the inline map and clamp
convert_getData_IR ==
  /\ sketch = "getData_IR"
  /\ pc = "sampled"
  /\ percentTenths' = 10 * inlineMoisturePercentage(rawReading)
  /\ pc' = "converted"
  /\ UNCHANGED <<extVars, sketch, rx, nArrived, nHandled, nDone, cur, frame, pin, moveCount,
                 selectedAnalogPinIndex, nM, act, pulses, position, serialOut,
                 rawReading>>

\* analogRead has returned any 10-bit value
InitConv ==
  /\ sketch \in ConverterSketches
  /\ pc = "sampled"
  /\ rawReading \in 0..ADC_MAX
  /\ percentTenths = 0
  /\ rx = <<>>
  /\ nArrived = 0
  /\ nHandled = 0
  /\ nDone = 0
  /\ cur = NoCmd
  /\ frame = NoFrame
  /\ pin = [p \in OutputPins |-> "Z"]
  /\ moveCount = 0
  /\ selectedAnalogPinIndex = -1
  /\ nM = 0
  /\ act = "none"
  /\ pulses = 0
  /\ position = 0
  /\ serialOut = <<>>
  /\ ExtInit

NextConv ==
  \/ convert_000
  \/ convert_soilsensor
  \/ convert_getData_IR

SpecConv == InitConv /\ [][NextConv]_vars

\* ------------------------------------------------- soilsensor (dispatcher)
\* requests the host issues in one behaviour
MaxRequests == 6

\* lines the host may send to soilsensor (without the terminating \n):
\* "A", "B", "C\r", "D", "E", "F", ""
SoilLines == {<<65>>, <<66>>, <<67, 13>>, <<68>>, <<69>>, <<70>>, <<>>}

\* the host sends one request line and then waits for one line of answer
HostRequest ==
  /\ sketch = "soilsensor"
  /\ ~hostAwait
  /\ nArrived < MaxRequests
  /\ \E c \in SoilLines :
       rx' = Append(rx, [id |-> nArrived + 1, cmd |-> c])
  /\ nArrived' = nArrived + 1
  /\ hostAwait' = TRUE
  /\ UNCHANGED <<sketch, pc, nHandled, nDone, cur, frame, pin, moveCount,
                 selectedAnalogPinIndex, nM, act, pulses, position, serialOut,
                 rawReading, percentTenths, tx, hostGot, sensorOk, nBegin>>

\* the host reads the oldest unread line as the answer to its latest request
HostReadLine ==
  /\ sketch = "soilsensor"
  /\ hostAwait
  /\ tx # <<>>
  /\ hostGot' = Head(tx)
  /\ tx' = Tail(tx)
  /\ hostAwait' = FALSE
  /\ UNCHANGED <<sketch, pc, rx, nArrived, nHandled, nDone, cur, frame, pin,
                 moveCount, selectedAnalogPinIndex, nM, act, pulses, position,
                 serialOut, rawReading, percentTenths, sensorOk, nBegin>>

\* setup(): serial port and analog inputs; no digital output
setup_soilsensor ==
  /\ sketch = "soilsensor"
  /\ pc = "setup"
  /\ pc' = "loop"
  /\ UNCHANGED <<extVars, sketch, rx, nArrived, nHandled, nDone, cur, frame, pin,
                 moveCount, selectedAnalogPinIndex, nM, act, pulses, position,
                 serialOut, rawReading, percentTenths>>

\* switch (sensorID): 'A'..'E' select A0..A4, anything else is -1
pinToReadOf(sensorID) ==
  IF sensorID >= 65 /\ sensorID <= 69 THEN sensorID - 65 ELSE -1

\* what loop() prints for a valid ID: the percentage, then the status line
soilLinesValid(req) ==
  <<[req |-> req, kind |-> "value"], [req |-> req, kind |-> "debug"]>>

\* what loop() prints in the default case: the error text, then "-1.0"
soilLinesUnknown(req) ==
  <<[req |-> req, kind |-> "error"], [req |-> req, kind |-> "dummy"]>>

\* loop(), ID 'A'..'E': sample, convert, print
loop_soilsensor_read ==
  /\ sketch = "soilsensor"
  /\ pc = "loop"
  /\ Available
  /\ LET in == NextInput(rx)
     IN /\ pinToReadOf(charAt0(trim(in.cmd))) # -1
        /\ cur' = in
        /\ serialOut' = soilLinesValid(in.id)
        /\ tx' = tx \o soilLinesValid(in.id)
  /\ \E r \in AnalogSamples :
       /\ rawReading' = r
       /\ percentTenths' = mapToMoistureTenths(r)
  /\ rx' = AfterRead(rx)
  /\ nHandled' = nHandled + 1
  /\ nDone' = nDone + 1
  /\ act' = "read"
  /\ UNCHANGED <<sketch, pc, nArrived, frame, pin, moveCount,
                 selectedAnalogPinIndex, nM, pulses, position,
                 hostGot, hostAwait, sensorOk, nBegin>>

\* loop(), any other ID: error text and the dummy value, then return
loop_soilsensor_unknown ==
  /\ sketch = "soilsensor"
  /\ pc = "loop"
  /\ Available
  /\ LET in == NextInput(rx)
     IN /\ pinToReadOf(charAt0(trim(in.cmd))) = -1
        /\ cur' = in
        /\ serialOut' = soilLinesUnknown(in.id)
        /\ tx' = tx \o soilLinesUnknown(in.id)
  /\ rx' = AfterRead(rx)
  /\ nHandled' = nHandled + 1
  /\ nDone' = nDone + 1
  /\ act' = "diag"
  /\ UNCHANGED <<sketch, pc, nArrived, frame, pin, moveCount,
                 selectedAnalogPinIndex, nM, pulses, position,
                 rawReading, percentTenths, hostGot, hostAwait, sensorOk, nBegin>>

InitSoil ==
  /\ sketch = "soilsensor"
  /\ pc = "setup"
  /\ rx = <<>>
  /\ nArrived = 0
  /\ nHandled = 0
  /\ nDone = 0
  /\ cur = NoCmd
  /\ frame = NoFrame
  /\ pin = [p \in OutputPins |-> "Z"]
  /\ moveCount = 0
  /\ selectedAnalogPinIndex = -1
  /\ nM = 0
  /\ act = "none"
  /\ pulses = 0
  /\ position = 0
  /\ serialOut = <<>>
  /\ rawReading = 0
  /\ percentTenths = 0
  /\ ExtInit

NextSoil ==
  \/ HostRequest
  \/ HostReadLine
  \/ setup_soilsensor
  \/ loop_soilsensor_read
  \/ loop_soilsensor_unknown

SpecSoil == InitSoil /\ [][NextSoil]_vars

\* ------------------------------------------------------ infrared sketches
\*   relay_ir       relay.ino, the Adafruit_MLX90614 sketch (blocks when
\*                  begin() fails)
\*   soilsensor_ir  soilsensor.ino, the DFRobot_MLX90614 sketch (reports the
\*                  failure once and carries on)
IRSketches == {"relay_ir", "soilsensor_ir"}

\* readings analogRead returns in the infrared specification
IRSamples == {0, ADC_MAX}

\* lines the host may send to soilsensor_ir: "A", ""
IRLines == {<<65>>, <<>>}

\* the sensor starts or stops answering on the bus
SensorChange ==
  /\ sketch \in IRSketches
  /\ sensorOk' = ~sensorOk
  /\ UNCHANGED <<sketch, pc, rx, nArrived, nHandled, nDone, cur, frame, pin,
                 moveCount, selectedAnalogPinIndex, nM, act, pulses, position,
                 serialOut, rawReading, percentTenths, tx, hostGot, hostAwait,
                 nBegin>>

\* locals of relay_ir loop() at the start of an iteration: for (int i = 3; ...)
loopFrame == [call |-> "loop", i |-> 3, moistureSum |-> 0, tempsValid |-> FALSE]

\* where control goes when begin() succeeded: into loop()
beginOk_relay == "countdown"

\* if begin() failed the program goes on into loop() all the same
beginFailed_relay_continue == "countdown"

\* where control goes when begin() failed: while (1);
beginFailed_relay == "halt"

\* relay_ir setup(): one call of mlx.begin()
setup_relay_ir ==
  /\ sketch = "relay_ir"
  /\ pc = "setup"
  /\ nBegin' = nBegin + 1
  /\ pc' = IF sensorOk THEN beginOk_relay ELSE beginFailed_relay
  /\ frame' = IF pc' = "countdown" THEN loopFrame ELSE NoFrame
  /\ UNCHANGED <<sketch, rx, nArrived, nHandled, nDone, cur, pin, moveCount,
                 selectedAnalogPinIndex, nM, act, pulses, position, serialOut,
                 rawReading, percentTenths, tx, hostGot, hostAwait, sensorOk>>

\* relay_ir loop(): one pass of the countdown; after the last one the two
\* temperatures are read (garbage when the sensor does not answer)
loop_relay_ir_countdown ==
  /\ sketch = "relay_ir"
  /\ pc = "countdown"
  /\ IF frame.i > 1
       THEN /\ frame' = [frame EXCEPT !.i = @ - 1]
            /\ pc' = pc
       ELSE /\ frame' = [frame EXCEPT !.i = 0, !.moistureSum = 0,
                                      !.tempsValid = sensorOk]
            /\ pc' = "sample"
  /\ UNCHANGED <<extVars, sketch, rx, nArrived, nHandled, nDone, cur, pin,
                 moveCount, selectedAnalogPinIndex, nM, act, pulses, position,
                 serialOut, rawReading, percentTenths>>

\* relay_ir loop(): one pass of the averaging loop
loop_relay_ir_sample ==
  /\ sketch = "relay_ir"
  /\ pc = "sample"
  /\ frame.i < 10
  /\ \E r \in IRSamples :
       /\ rawReading' = r
       /\ frame' = [frame EXCEPT !.i = @ + 1, !.moistureSum = @ + r]
  /\ UNCHANGED <<extVars, sketch, pc, rx, nArrived, nHandled, nDone, cur, pin,
                 moveCount, selectedAnalogPinIndex, nM, act, pulses, position,
                 serialOut, percentTenths>>

\* relay_ir loop(): the readings are printed and the iteration ends
loop_relay_ir_emit ==
  /\ sketch = "relay_ir"
  /\ pc = "sample"
  /\ frame.i = 10
  /\ serialOut' = <<[kind |-> "csv", val |-> frame.moistureSum,
                     valid |-> frame.tempsValid]>>
  /\ act' = "reading"
  /\ frame' = loopFrame
  /\ pc' = "countdown"
  /\ UNCHANGED <<extVars, sketch, rx, nArrived, nHandled, nDone, cur, pin,
                 moveCount, selectedAnalogPinIndex, nM, pulses, position,
                 rawReading, percentTenths>>

\* the host writes one line to soilsensor_ir
HostWrite_ir ==
  /\ sketch = "soilsensor_ir"
  /\ nArrived < MaxRequests
  /\ Len(rx) < MaxBuf
  /\ \E c \in IRLines :
       rx' = Append(rx, [id |-> nArrived + 1, cmd |-> c])
  /\ nArrived' = nArrived + 1
  /\ UNCHANGED <<extVars, sketch, pc, nHandled, nDone, cur, frame, pin, moveCount,
                 selectedAnalogPinIndex, nM, act, pulses, position, serialOut,
                 rawReading, percentTenths>>

\* soilsensor_ir setup(): one call of sensor.begin(); a failure is reported
\* and setup returns
setup_soilsensor_ir ==
  /\ sketch = "soilsensor_ir"
  /\ pc = "setup"
  /\ nBegin' = nBegin + 1
  /\ serialOut' = IF sensorOk THEN serialOut
                  ELSE <<[kind |-> "error", val |-> 0, valid |-> FALSE]>>
  /\ pc' = "loop"
  /\ UNCHANGED <<sketch, rx, nArrived, nHandled, nDone, cur, frame, pin, moveCount,
                 selectedAnalogPinIndex, nM, act, pulses, position,
                 rawReading, percentTenths, tx, hostGot, hostAwait, sensorOk>>

\* soilsensor_ir loop(): any line triggers one read of both temperatures
loop_soilsensor_ir ==
  /\ sketch = "soilsensor_ir"
  /\ pc = "loop"
  /\ Available
  /\ cur' = NextInput(rx)
  /\ rx' = AfterRead(rx)
  /\ serialOut' = <<[kind |-> "csv", val |-> 0, valid |-> sensorOk]>>
  /\ nHandled' = nHandled + 1
  /\ nDone' = nDone + 1
  /\ act' = "reading"
  /\ UNCHANGED <<extVars, sketch, pc, nArrived, frame, pin, moveCount,
                 selectedAnalogPinIndex, nM, pulses, position,
                 rawReading, percentTenths>>

InitIR ==
  /\ sketch \in IRSketches
  /\ pc = "setup"
  /\ sensorOk \in BOOLEAN
  /\ nBegin = 0
  /\ tx = <<>>
  /\ hostGot = NoLine
  /\ hostAwait = FALSE
  /\ rx = <<>>
  /\ nArrived = 0
  /\ nHandled = 0
  /\ nDone = 0
  /\ cur = NoCmd
  /\ frame = NoFrame
  /\ pin = [p \in OutputPins |-> "Z"]
  /\ moveCount = 0
  /\ selectedAnalogPinIndex = -1
  /\ nM = 0
  /\ act = "none"
  /\ pulses = 0
  /\ position = 0
  /\ serialOut = <<>>
  /\ rawReading = 0
  /\ percentTenths = 0

NextIR ==
  \/ SensorChange
  \/ setup_relay_ir
  \/ loop_relay_ir_countdown
  \/ loop_relay_ir_sample
  \/ loop_relay_ir_emit
  \/ HostWrite_ir
  \/ setup_soilsensor_ir
  \/ loop_soilsensor_ir

\* setup() and loop() keep running: every delay() returns
SpecIR ==
  /\ InitIR
  /\ [][NextIR]_vars
  /\ WF_vars(setup_relay_ir)
  /\ WF_vars(loop_relay_ir_countdown)
  /\ WF_vars(loop_relay_ir_sample)
  /\ WF_vars(loop_relay_ir_emit)
  /\ WF_vars(setup_soilsensor_ir)
  /\ WF_vars(loop_soilsensor_ir)

\* =================================================================== claims
\* N of a stepper sketch: MOVES in part_001, HOMING_CYCLE in part_002
CycleLen == IF sketch = "part_001" THEN MOVES ELSE HOMING_CYCLE

\* forward steps of one move of a stepper sketch
StepsPerMove == IF sketch = "part_001" THEN STEPS_PER_MOVE_001 ELSE STEPS_PER_MOVE_002

\* the line's identifier is 'M'
IsMoveLine(line) == charAt0(trim(line)) = CharM

LowPumpPins == {p \in PumpPinSet : pin[p] = "LOW"}

AllPumpsOff == \A p \in PumpPinSet : pin[p] = "HIGH"

\* C1: in both stepper sketches, counting the 'M' commands handled from
\* moveCount = 0, commands 1..N each perform a forward move, command N+1
\* performs the homing reverse move and leaves moveCount = 0, and the pattern
\* repeats with period N+1 (command N+2 is a forward move like command 1).
C1_HomingCycle ==
  (sketch \in StepperSketches /\ cur.id > 0 /\ IsMoveLine(cur.cmd)) =>
     /\ act = (IF nM % (CycleLen + 1) = 0 THEN "reverse" ELSE "forward")
     /\ (act = "reverse" /\ pc = "loop") => moveCount = 0
     /\ (act = "forward" /\ pc = "loop") => moveCount = nM % (CycleLen + 1)

C1_Witness ==
  /\ sketch = "part_001"
  /\ nM = MOVES + 2
  /\ act = "forward"
  /\ pc = "loop"
  /\ moveCount = 1

\* C2 as stated: in every reachable state of both stepper sketches
\* 0 <= moveCount < N.
C2_Original ==
  sketch \in StepperSketches => (0 <= moveCount /\ moveCount < CycleLen)

\* C2 amended: in every reachable state of both stepper sketches
\* 0 <= moveCount <= N; moveCount changes only by +1 in a forward command
\* and to 0 in a homing command.
C2_CounterRange ==
  /\ [](sketch \in StepperSketches => (0 <= moveCount /\ moveCount <= CycleLen))
  /\ [][(sketch \in StepperSketches /\ moveCount' # moveCount) =>
          \/ (moveCount' = moveCount + 1 /\ act' = "forward")
          \/ (moveCount' = 0 /\ act' = "reverse")]_vars

C2_Witness ==
  /\ sketch \in StepperSketches
  /\ moveCount = CycleLen
  /\ pc = "loop"

\* C3 as stated: in both stepper sketches a homing move runs with DIR_PIN at
\* the level opposite to the forward moves and emits exactly
\* STEPS_PER_MOVE * N pulses, so that after every completed homing move the
\* net displacement of the motor is 0.
C3_Original ==
  (sketch \in StepperSketches /\ act = "reverse" /\ pc = "loop") =>
     /\ pulses = StepsPerMove * CycleLen
     /\ position = 0

\* C4: in the pump controller and both stepper sketches, reading a command
\* whose identifier is outside the valid set prints a diagnostic line and
\* leaves every digital output pin at its level.
C4_InvalidId(cmd) ==
  IF sketch = "part_003" THEN cmd \notin {65, 66, 67, 68, 69}
  ELSE ~IsMoveLine(cmd)

C4_InvalidNoPinChange ==
  [][(/\ sketch \in {"part_001", "part_002", "part_003"}
      /\ nHandled' = nHandled + 1
      /\ C4_InvalidId(Head(rx).cmd))
     => /\ pin' = pin
        /\ pc' = "loop"
        /\ \E i \in 1..Len(serialOut') : serialOut'[i].kind = "diag"]_vars

C4_Witness ==
  /\ sketch = "part_002"
  /\ act = "diag"
  /\ nM > 0
  /\ pin[DIR_PIN] = "HIGH"

\* C5 as stated: in every dispatcher sketch, handling an unrecognized
\* identifier leaves every global variable (moveCount,
\* selectedAnalogPinIndex) at the value it had before the input was read.
C5_Unrecognized(cmd) ==
  IF sketch \in StepperSketches THEN ~IsMoveLine(cmd)
  ELSE cmd \notin {48, 49, 50, 51, 52}

C5_Original ==
  [][(/\ sketch \in {"part_000", "part_001", "part_002"}
      /\ nHandled' = nHandled + 1
      /\ C5_Unrecognized(Head(rx).cmd))
     => /\ moveCount' = moveCount
        /\ selectedAnalogPinIndex' = selectedAnalogPinIndex]_vars

\* C6: in the pump controller, after setup at most one pump pin is LOW in
\* any reachable state, and all five are HIGH whenever loop() is about to
\* read the next input byte.
C6_OnePumpAtMost ==
  (sketch = "part_003" /\ pc # "setup") =>
     /\ Cardinality(LowPumpPins) <= 1
     /\ pc = "loop" => AllPumpsOff

C6_Witness ==
  /\ sketch = "part_003"
  /\ pc = "delay"
  /\ Len(rx) > 0
  /\ Cardinality(LowPumpPins) = 1
  /\ nHandled >= 2

\* C7: in the pump controller, reading PUMP_COMMANDS[i] drives exactly
\* PUMP_PINS[i] LOW; while the delay runs no pin is written; the only way out
\* of the delay is the write of HIGH to that same pin, after which loop()
\* resumes with every pump off; and every activation started reaches that
\* point.
C7_PumpPulse ==
  /\ [][(sketch = "part_003" /\ nHandled' = nHandled + 1) =>
          \A i \in 1..5 :
             Head(rx).cmd = PUMP_COMMANDS[i] =>
                /\ pin' = [pin EXCEPT ![PUMP_PINS[i]] = "LOW"]
                /\ pc' = "delay"]_vars
  /\ [][(sketch = "part_003" /\ pc = "delay") =>
          \/ pc' = "delay" /\ pin' = pin /\ cur' = cur
          \/ /\ pc' = "loop"
             /\ \A i \in 1..5 :
                  cur.cmd = PUMP_COMMANDS[i] =>
                     pin' = [pin EXCEPT ![PUMP_PINS[i]] = "HIGH"]
             /\ \A p \in PumpPinSet : pin'[p] = "HIGH"]_vars
  /\ (sketch = "part_003" /\ pc = "delay") ~> (pc = "loop" /\ AllPumpsOff)

C7_Witness ==
  /\ sketch = "part_003"
  /\ pc = "loop"
  /\ act = "pump"
  /\ cur.cmd = PUMP_COMMANDS[3]
  /\ nDone = nHandled
  /\ nHandled >= 2
  /\ AllPumpsOff

\* C8: the k-th command read by loop() is the k-th command that arrived, the
\* commands still buffered are the following arrivals in order (none
\* dropped, duplicated or reordered), and a command is read only when the
\* action of every earlier command is complete.
C8_ArrivalOrder ==
  /\ [](/\ cur.id = nHandled
        /\ nHandled + Len(rx) = nArrived
        /\ \A i \in 1..Len(rx) : rx[i].id = nHandled + i
        /\ nDone \in {nHandled - 1, nHandled} /\ nDone >= 0)
  /\ [][nHandled' # nHandled =>
          /\ nHandled' = nHandled + 1
          /\ nDone = nHandled
          /\ cur' = Head(rx)]_vars

C8_Witness ==
  /\ sketch = "part_002"
  /\ pc = "moveMotor"
  /\ Len(rx) >= 2
  /\ nHandled >= 3

\* C9 as stated: for every raw reading 0..1023 every converter returns a
\* percentage in 0..100, and readings at or beyond a calibration endpoint
\* saturate: 100 percent at or below the wet value, 0 percent at or above
\* the dry value.
C9_Original ==
  pc = "converted" =>
     /\ 0 <= percentTenths /\ percentTenths <= 1000
     /\ rawReading <= WET_VALUE => percentTenths = 1000
     /\ rawReading >= DRY_VALUE => percentTenths = 0

\* C10 as stated: with dry = 767 and wet = 463 every converter maps 463 to
\* 100 percent, 767 to 0 percent and 615 to 50 percent.
C10_Original ==
  pc = "converted" =>
     /\ rawReading = 463 => percentTenths = 1000
     /\ rawReading = 767 => percentTenths = 0
     /\ rawReading = 615 => percentTenths = 500

\* C11 as stated: in the five-sensor sketch every valid command line
\* ('A'..'E') produces exactly one line of output, the moisture percentage,
\* so the single line the host reads after a request is the answer to that
\* request.
C11_Original ==
  sketch = "soilsensor" =>
     /\ act = "read" =>
          (Len(serialOut) = 1 /\ serialOut[1].kind = "value")
     /\ (~hostAwait /\ hostGot.kind \in {"value", "debug"}) =>
          (hostGot.kind = "value" /\ hostGot.req = nArrived)

\* C12 as stated: in the infrared sketch that blocks on initialization
\* failure, a failed initialization is retried: if the sensor answers from
\* some time on, setup eventually completes and the main loop eventually
\* emits readings; begin() is not called again in steady state.
C12_Original ==
  /\ <>[]sensorOk => <>(sketch = "relay_ir" => act = "reading")
  /\ [][nBegin' # nBegin => pc = "setup"]_vars

\* C12 amended: in that sketch begin() is called exactly once and never
\* retried.  If it fails, setup blocks forever and the main loop never emits
\* a reading, also when the sensor answers later; if it succeeds the main
\* loop eventually emits readings; begin() is not called again in steady
\* state (in either infrared sketch).
C12_NoRetry ==
  /\ [](nBegin <= 1 /\ (pc = "halt" => (sketch = "relay_ir" /\ act = "none")))
  /\ [][nBegin' # nBegin => pc = "setup"]_vars
  /\ [][(sketch = "relay_ir" /\ pc = "setup" /\ ~sensorOk /\ pc' # pc) =>
          pc' = "halt"]_vars
  /\ [][pc = "halt" => (pc' = "halt" /\ act' = act /\ nBegin' = nBegin)]_vars
  /\ (sketch = "relay_ir" /\ pc = "countdown") ~> (act = "reading")

C12_Witness ==
  /\ sketch = "relay_ir"
  /\ pc = "halt"
  /\ sensorOk
  /\ nBegin = 1
  /\ act = "none"

\* C13 as stated: in both stepper sketches the number announced by a forward
\* move ('Executing move #k of N') is the ordinal of that forward move within
\* the current homing cycle: 1, 2, ..., N in order, never more than N.
C13_Original ==
  (sketch \in StepperSketches /\ act = "forward") =>
     /\ serialOut[1].kind = "move"
     /\ serialOut[1].val = nM % (CycleLen + 1)
     /\ serialOut[1].val <= CycleLen

\* the result in whole percent of the conversion just made
ConvertedPercent == percentTenths \div 10

\* the reading is at or beyond a calibration endpoint, or falls on an exact
\* percent
ExactReading(r) ==
  r <= WET_VALUE \/ r >= DRY_VALUE \/ ((r - WET_VALUE) * 100) % (DRY_VALUE - WET_VALUE) = 0

\* C14 as stated: for every raw reading 0..1023 the inline map + clamp of
\* getData_IR and calculateMoisturePercentage return the same percentage.
C14_Original ==
  pc = "converted" =>
     /\ sketch = "getData_IR" =>
          ConvertedPercent = calculateMoisturePercentage(rawReading)
     /\ sketch = "part_000" =>
          ConvertedPercent = inlineMoisturePercentage(rawReading)

\* C14 amended: for every raw reading 0..1023 the two formulations differ by
\* at most one percent: they are equal when the reading is at or beyond a
\* calibration endpoint or (r - 463) * 100 is a multiple of 304, and
\* otherwise calculateMoisturePercentage(r) is the inline result plus 1.
C14_WithinOne ==
  pc = "converted" =>
     /\ sketch = "getData_IR" =>
          calculateMoisturePercentage(rawReading) =
             ConvertedPercent + (IF ExactReading(rawReading) THEN 0 ELSE 1)
     /\ sketch = "part_000" =>
          ConvertedPercent =
             inlineMoisturePercentage(rawReading)
                + (IF ExactReading(rawReading) THEN 0 ELSE 1)

C14_Witness ==
  /\ sketch = "getData_IR"
  /\ pc = "converted"
  /\ rawReading = 464
  /\ percentTenths = 990
  /\ calculateMoisturePercentage(rawReading) = 100

====
